---- MODULE Spec2Model ----
(***************************************************************************)
(* Lifecycle orchestration of ts-framework: the service manager            *)
(* (ApplicationServiceManager), the module manager                         *)
(* (ApplicationModuleManager) and the application that drives them.        *)
(*                                                                         *)
(* Service constructors are integers, modules are strings.  A service has  *)
(* one instance (it is imported by exactly one module), so a constructor   *)
(* and its instance share one identity.                                    *)
(*                                                                         *)
(* Asynchronous code is modelled by coroutines: one step of a coroutine    *)
(* completes the user code it was awaiting (a hook, register(), start(),   *)
(* stop()) and runs the framework code that follows, up to and including   *)
(* the next invocation of user code.                                       *)
(***************************************************************************)
EXTENDS Integers, Sequences, FiniteSets, TLC

MaxServices == 4      \* classes drawn in the resolution-order specification
MaxParams   == 2      \* constructor parameters of a class drawn there
MaxCycles   == 2      \* calls of Application.start() in one behaviour
MaxFailures == 1      \* register()/start()/stop() calls that throw
MaxChain    == 2      \* errors in a thrown array or in a thrown event's chain
MaxErrors   == 1      \* error events emitted by user code on an error manager

Undefined == << << 0 >> >>   \* cachedPaths when no load paths are cached
App       == "App"    \* the application is the root module
NoModule  == "none"

Classes == 1 .. MaxServices

SeqToSet(seq) == { seq[i] : i \in DOMAIN seq }

IndexOf(seq, x) == CHOOSE i \in DOMAIN seq : seq[i] = x

Reverse(seq) == [ i \in 1 .. Len(seq) |-> seq[Len(seq) + 1 - i] ]

RECURSIVE Concat(_)
Concat(seqs) == IF seqs = << >> THEN << >> ELSE Head(seqs) \o Concat(Tail(seqs))

----------------------------------------------------------------------------
(* State                                                                   *)

VARIABLES
    cfg,             \* the program given to the framework: constructor parameter
                     \* types of each class, the module importing each service,
                     \* the parent of each module, the modules in import order
    services,        \* ApplicationServiceManager.services (insertion order)
    cachedPaths,     \* ApplicationServiceManager.cachedPaths
    active,          \* ApplicationServiceManager.active
    registered,      \* ApplicationServiceManager.registered
    lifecycleCache,  \* ApplicationModuleManager.lifecycleCache
    tasks,           \* the onPath() coroutines that have not returned
    app,             \* Application: flags, completion sources, position of start()
    errors,          \* the ErrorManager instances: their _targetManagers and
                     \* listeners, and the receipts of the event emitted last
    hist             \* history: what the last step invoked, and per-cycle records

vars == << cfg, services, cachedPaths, active, registered, lifecycleCache,
           tasks, app, errors, hist >>

----------------------------------------------------------------------------
(* Dependency graph and load paths                                         *)

\* graph.addDependency(service, type) is called for the class-typed
\* parameters that are registered services, in parameter order
getDirectDependenciesOf(node, svcs, params) ==
    SelectSeq(params[node], LAMBDA type : type \in SeqToSet(svcs))

\* nodes that no other node depends on, in insertion order
getEntryNodes_first(svcs, params) == SubSeq(svcs, 1, 1)
getEntryNodes(svcs, params) ==
    SelectSeq(svcs, LAMBDA n :
        \A m \in SeqToSet(svcs) :
            n \notin SeqToSet(getDirectDependenciesOf(m, svcs, params)))

\* the path after one unshift
unshift_rev(path, node) == Append(path, node)
unshift(path, node) == << node >> \o path

RECURSIVE traverse(_, _, _, _)
traverse(nodes, path, svcs, params) ==
    IF nodes = << >> THEN path
    ELSE LET node  == Head(nodes)
             added == unshift(path, node)
             deep  == traverse(getDirectDependenciesOf(node, svcs, params),
                               added, svcs, params)
         IN  traverse(Tail(nodes), deep, svcs, params)

\* [...(new Set(path))]: the first occurrence of each element is kept
RemoveDuplicates(path) ==
    SelectSeq([ i \in DOMAIN path |->
                  IF \E j \in 1 .. (i - 1) : path[j] = path[i] THEN 0 ELSE path[i] ],
              LAMBDA x : x # 0)

\* the load paths computed when the cache is empty
getResolutionOrder(svcs, params) ==
    LET roots == getEntryNodes(svcs, params)
    IN  [ index \in 1 .. Len(roots) |->
            RemoveDuplicates(traverse(<< roots[index] >>, << >>, svcs, params)) ]

\* the declared parameter types contain no cycle
RECURSIVE Reach(_, _, _)
Reach(from, params, fuel) ==
    IF fuel = 0 THEN from
    ELSE Reach(from \cup UNION { SeqToSet(params[n]) : n \in from }, params, fuel - 1)

\* sequences without repetition over a set, of at most n elements
RECURSIVE Arrangements(_, _)
Arrangements(S, n) ==
    IF n = 0 THEN { << >> }
    ELSE { << >> } \cup
         UNION { { << x >> \o rest : rest \in Arrangements(S \ { x }, n - 1) } : x \in S }

----------------------------------------------------------------------------
(* Module tree                                                             *)

Modules == DOMAIN cfg.options

Lifecycles == { "beforeModuleBoot", "onModuleBoot",
                "beforeModuleShutdown", "onModuleShutdown" }

\* the module that imports m (the application has none)
getParentModule(m) ==
    IF \E q \in Modules : m \in SeqToSet(cfg.options[q].imports)
    THEN CHOOSE q \in Modules : m \in SeqToSet(cfg.options[q].imports)
    ELSE NoModule

getChildModules(m) == cfg.options[m].imports

\* ApplicationServiceManager.parents: the module an instance was created for
ParentOf(service) ==
    CHOOSE q \in Modules : service \in SeqToSet(cfg.options[q].services)

RECURSIVE ModuleChain(_)
ModuleChain(m) ==
    IF m = NoModule \/ m = App THEN << >> ELSE << m >> \o ModuleChain(getParentModule(m))

\* direct parent first, the application last
getParentModules(service) == ModuleChain(ParentOf(service)) \o << App >>

\* ApplicationServiceManager.modules.get(module): the instances created for it
ModuleInstances(m) == SeqToSet(cfg.options[m].services) \cap SeqToSet(services)

RECURSIVE getFromModule(_, _)
getFromModule(m, deep) ==
    IF ModuleInstances(m) = { }
    THEN IF m = App /\ deep THEN SeqToSet(services) ELSE { }
    ELSE IF ~deep THEN ModuleInstances(m)
    ELSE ModuleInstances(m) \cup
         UNION { getFromModule(getChildModules(m)[j], TRUE) :
                 j \in DOMAIN getChildModules(m) }

\* registerFromModule: the module's services, then those of its imports
RECURSIVE registerFromModule(_)
registerFromModule(m) ==
    cfg.options[m].services \o
    Concat([ j \in DOMAIN getChildModules(m) |->
               registerFromModule(getChildModules(m)[j]) ])

\* invokeModuleMethod(module, finished, types): the modules on which
\* invokeLifecycle is called, in call order.  nest() descends into the
\* child modules for which getFromModule(child, true) is empty.
RECURSIVE invokeModuleMethod(_, _)
invokeModuleMethod(m, finished) ==
    LET kids == SelectSeq(getChildModules(m),
                          LAMBDA c : getFromModule(c, TRUE) = { })
        nest == Concat([ j \in DOMAIN kids |-> invokeModuleMethod(kids[j], finished) ])
    IN  IF finished THEN nest \o << m >> ELSE << m >> \o nest

\* the lifecycle a startModule/stopModule call selects
LifecycleOf(kind, finished) ==
    IF kind = "start"
    THEN IF finished THEN "onModuleBoot" ELSE "beforeModuleBoot"
    ELSE IF finished THEN "onModuleShutdown" ELSE "beforeModuleShutdown"

\* for (const parent of [...parents].reverse()) await startModule(parent, false)
BeforeCalls(service) ==
    LET up == Reverse(getParentModules(service))
    IN  Concat([ j \in DOMAIN up |-> invokeModuleMethod(up[j], FALSE) ])

----------------------------------------------------------------------------
(* History                                                                 *)

NoLast == [ op |-> "none", s |-> 0, m |-> NoModule, ev |-> "", p |-> 0,
            chain |-> << >>, thrown |-> "" ]

Bump(n) == IF n < 2 THEN n + 1 ELSE n

\* a lifecycle hook of module m is invoked
NoteHook(h, m, ev, p) ==
    [ h EXCEPT !.last    = [ NoLast EXCEPT !.op = "hook", !.m = m, !.ev = ev, !.p = p ],
               !.fired   = @ \cup { << m, ev >> },
               !.refired = IF << m, ev >> \in h.fired THEN @ \cup { << m, ev >> } ELSE @ ]

\* register(), start() or stop() of service s is invoked
NoteCall(h, op, s, p) ==
    [ h EXCEPT !.last       = [ NoLast EXCEPT !.op = op, !.s = s, !.p = p ],
               !.regCalls   = IF op = "register" THEN [ @ EXCEPT ![s] = Bump(@) ] ELSE @,
               !.startCalls = IF op = "start" THEN [ @ EXCEPT ![s] = Bump(@) ]
                              ELSE IF op = "stop" THEN [ @ EXCEPT ![s] = 0 ] ELSE @,
               !.started    = IF op = "start" THEN @ \cup { s } ELSE @,
               !.stopCalled = IF op = "stop" THEN @ \cup { s } ELSE @ ]

----------------------------------------------------------------------------
(* ErrorManager.createEvent                                                *)

\* what user code can throw: an Error, a string, undefined, an array of
\* errors, an ErrorEvent (with its chain), anything else
Thrown ==
    { [ kind |-> k, chain |-> << >> ] : k \in { "Error", "string", "undefined", "other" } }
    \cup { [ kind |-> "Array", chain |-> [ j \in 1 .. n |-> "inner" ] ] : n \in 0 .. MaxChain }
    \cup { [ kind |-> "ErrorEvent", chain |-> [ j \in 1 .. n |-> "inner" ] ] : n \in 1 .. MaxChain }

\* createError(input): the input itself, or a new Error made from it
createError(input) ==
    IF input.kind = "Error" THEN "cause"
    ELSE IF input.kind = "string" THEN "Error(cause)"
    ELSE "Error(unknown)"

\* createErrorChain(outerError, input): the original error first, the
\* outermost error last
createErrorChain_outer(outerError, input) == << outerError >>
createErrorChain(outerError, input) ==
    IF input.kind = "undefined" THEN << outerError >>
    ELSE IF input.kind \in { "Array", "ErrorEvent" } THEN Append(input.chain, outerError)
    ELSE << createError(input), outerError >>

\* errors.abort(new ServiceOperationError(op), error) in the catch block of
\* op of service s: the event that is propagated
NoteAbort(h, op, s, p, thrown) ==
    [ h EXCEPT !.last     = [ NoLast EXCEPT !.op = "abort", !.ev = op, !.s = s, !.p = p,
                                            !.chain = createErrorChain(op, thrown),
                                            !.thrown = thrown.kind ],
               !.failures = @ + 1,
               !.failed   = @ \cup { << op, s >> },
               !.atAbort  = IF h.failed = { } THEN h.startDone ELSE @,
               !.failedPaths = @ \cup { p },
               !.critical = Bump(@) ]

----------------------------------------------------------------------------
(* ApplicationServiceManager.start / stop / onPath                         *)

\* invokeLifecycle over the pending calls: the cached ones return at once,
\* the first one not cached is claimed and its hooks are invoked
invokeLifecycle(todo, ev, lc) ==
    LET open == { j \in DOMAIN todo : << todo[j], ev >> \notin lc }
    IN  IF open = { }
        THEN [ hit |-> FALSE, m |-> NoModule, rest |-> << >>, lc |-> lc ]
        ELSE LET j == CHOOSE x \in open : \A y \in open : x <= y
             IN  [ hit  |-> TRUE, m |-> todo[j],
                   rest |-> SubSeq(todo, j + 1, Len(todo)),
                   lc   |-> lc \cup { << todo[j], ev >> } ]

\* if (this.active.has(service)) return
StartIgnored(service, act) == service \in act

\* if (!this.registered.has(service))
NeedsRegister_always(service, reg) == TRUE
NeedsRegister(service, reg) == service \notin reg

\* if (!this.active.has(service)) return
StopIgnored(service, act) == service \notin act

\* the completion test after a service has started or stopped
ModuleFinished(kind, parent, act) ==
    IF kind = "start"
    THEN getFromModule(parent, TRUE) \ act = { }
    ELSE getFromModule(parent, TRUE) \cap act = { }

NewTask(kind, p) ==
    [ awaited |-> TRUE, kind |-> kind, p |-> p, i |-> 1, pc |-> "run",
      phase |-> "enter", s |-> 0, todo |-> << >>, k |-> 0, m |-> NoModule,
      hooks |-> { }, idle |-> FALSE ]

\* one service is finished with: onPath moves to the next node of the path
NextNode(t) ==
    [ t EXCEPT !.i = @ + 1, !.pc = "run", !.phase = "enter", !.s = 0,
               !.todo = << >>, !.k = 0, !.m = NoModule, !.hooks = { },
               !.idle = FALSE ]

\* the framework code of one onPath coroutine from its current position up
\* to its next invocation of user code; g is the state it reads and writes
RECURSIVE Run(_, _, _)
Run(t, g, paths) ==
    IF t.phase = "enter"
    THEN IF t.i > Len(paths[t.p])
         THEN [ t |-> [ t EXCEPT !.pc = "done" ], g |-> g ]
         ELSE Run([ t EXCEPT !.phase = "pre", !.s = paths[t.p][t.i],
                             !.idle = paths[t.p][t.i] \notin g.active,
                             !.todo = BeforeCalls(paths[t.p][t.i]) ], g, paths)
    ELSE LET d == invokeLifecycle(t.todo, LifecycleOf(t.kind, t.phase = "post"), g.lc)
         IN
         IF d.hit
         THEN [ t |-> [ t EXCEPT !.pc = "hook", !.m = d.m, !.todo = d.rest,
                                 !.hooks = IF t.phase = "pre" THEN @ \cup { d.m } ELSE @ ],
                g |-> [ g EXCEPT !.lc = d.lc,
                                 !.hist = NoteHook(@, d.m,
                                     LifecycleOf(t.kind, t.phase = "post"), t.p) ] ]
         ELSE IF t.phase = "pre"
         THEN IF t.kind = "start"
              THEN IF StartIgnored(t.s, g.active)
                   THEN Run(NextNode(t),
                            [ g EXCEPT !.hist.ignored = @ \cup { t.s } ], paths)
                   ELSE IF NeedsRegister(t.s, g.registered)
                   THEN [ t |-> [ t EXCEPT !.pc = "register", !.todo = << >> ],
                          g |-> [ g EXCEPT !.active = @ \cup { t.s },
                                           !.registered = @ \cup { t.s },
                                           !.hist = NoteCall(@, "register", t.s, t.p) ] ]
                   ELSE [ t |-> [ t EXCEPT !.pc = "start", !.todo = << >> ],
                          g |-> [ g EXCEPT !.active = @ \cup { t.s },
                                           !.hist = NoteCall(@, "start", t.s, t.p) ] ]
              ELSE IF StopIgnored(t.s, g.active)
                   THEN Run(NextNode(t),
                            [ g EXCEPT !.hist.stopNoop =
                                  IF t.idle
                                  THEN @ \cup { [ s |-> t.s, hooks |-> t.hooks ] }
                                  ELSE @ ],
                            paths)
                   ELSE [ t |-> [ t EXCEPT !.pc = "stop", !.todo = << >> ],
                          g |-> [ g EXCEPT !.active = @ \ { t.s },
                                           !.hist = NoteCall(@, "stop", t.s, t.p) ] ]
         ELSE \* for (const parent of parents): the completion test of each
              IF t.k = Len(getParentModules(t.s))
              THEN Run(NextNode(t), g, paths)
              ELSE LET parent == getParentModules(t.s)[t.k + 1]
                   IN  Run([ t EXCEPT !.k = @ + 1,
                                      !.todo = IF ModuleFinished(t.kind, parent, g.active)
                                               THEN invokeModuleMethod(parent, TRUE)
                                               ELSE << >> ],
                           g, paths)

\* the coroutine resumes: the awaited user code has returned (ok) or thrown
Resume(t, g, paths, ok, thrown) ==
    IF t.pc = "hook"
    THEN Run([ t EXCEPT !.pc = "run", !.m = NoModule ], g, paths)
    ELSE IF ~ok
    THEN \* this.errors.abort(new ServiceOperationError(...), error)
         [ t |-> [ t EXCEPT !.pc = "failed" ],
           g |-> [ g EXCEPT !.hist = NoteAbort(@, t.pc, t.s, t.p, thrown) ] ]
    ELSE IF t.pc = "register"
    THEN [ t |-> [ t EXCEPT !.pc = "start" ],
           g |-> [ g EXCEPT !.hist = NoteCall(@, "start", t.s, t.p) ] ]
    ELSE \* start() or stop() has returned
         Run([ t EXCEPT !.pc = "run", !.phase = "post", !.k = 0, !.todo = << >> ],
             [ g EXCEPT !.hist.startDone =
                            IF t.pc = "start" THEN @ \cup { t.s } ELSE @ ],
             paths)

\* startAll()/stopAll(): one onPath coroutine per path, each run up to its
\* first await before the next is created
RECURSIVE Launch(_, _, _, _, _)
Launch(kind, p, paths, ts, g) ==
    IF p > Len(paths) THEN [ tasks |-> ts, g |-> g ]
    ELSE LET r == Run(NewTask(kind, p), g, paths)
         IN  Launch(kind, p + 1, paths,
                    IF r.t.pc = "done" THEN ts ELSE Append(ts, r.t), r.g)

----------------------------------------------------------------------------
(* ApplicationServiceManager.startAll / stopAll                            *)

World(a, ts, g, paths) == [ app |-> a, tasks |-> ts, g |-> g, paths |-> paths ]

\* startAll(): nothing is done when a service is active
startAll(ts, g, paths) ==
    IF g.active # { } THEN [ tasks |-> ts, g |-> g, paths |-> paths ]
    ELSE LET r == Launch("start", 1, paths, ts, g)
         IN  [ tasks |-> r.tasks, g |-> r.g, paths |-> paths ]

\* stopAll(): nothing is done when no service is active; path.reverse()
\* reverses the cached arrays themselves
stopAll(ts, g, paths) ==
    IF g.active = { } THEN [ tasks |-> ts, g |-> g, paths |-> paths ]
    ELSE LET rev == [ p \in DOMAIN paths |-> Reverse(paths[p]) ]
             r   == Launch("stop", 1, rev, ts, [ g EXCEPT !.hist.atStop = g.active ])
         IN  [ tasks |-> r.tasks, g |-> r.g, paths |-> rev ]

----------------------------------------------------------------------------
(* Application (src/application/Application.ts)                            *)

\* process.exit(1)
Exit(a) == [ a EXCEPT !.pc = "exited", !.outcome = "exit", !.todo = << >> ]

\* what is left of the coroutines when the process has exited
Alive(a, ts) == IF a.pc = "exited" THEN << >> ELSE ts

\* resetInternals()
resetInternals(a) ==
    [ a EXCEPT !.appActive = FALSE, !.appStopPending = FALSE,
               !.appRuntimeSource = FALSE, !.appShutdownSource = FALSE,
               !.appStartupSource = FALSE ]

\* the catch blocks of run() and shutdown(): an error that is not the
\* AbortError of errors.abort() is emitted as a critical UncaughtError
IsAbortError_never(error) == FALSE
IsAbortError(error) == error = "AbortError"

Uncaught(h, error) ==
    IF IsAbortError(error) THEN h
    ELSE [ h EXCEPT !.critical = Bump(@),
                    !.last = [ NoLast EXCEPT !.op = "critical", !.ev = "UncaughtError" ] ]

\* start() after shutdown() has returned: it returns when run() resolved to
\* true, otherwise AbortError is thrown and caught
Finish(a) ==
    LET r == resetInternals([ a EXCEPT !.todo = << >>, !.rejected = FALSE ])
    IN  IF a.result THEN [ r EXCEPT !.pc = "idle", !.outcome = "resolved" ]
        ELSE IF a.abortOnError THEN Exit(r)
        ELSE \* throw new FrameworkError('Application stopped due to a critical error')
             [ r EXCEPT !.pc = "idle", !.outcome = "rejected",
                        !.reason = "FrameworkError" ]

\* run()/shutdown() after startAll()/stopAll(): startModule(this, false),
\* startModule(this, true) (stopModule likewise), then the end of the call
RECURSIVE AfterAll(_, _)
AfterAll(a, g) ==
    LET d == invokeLifecycle(a.todo, LifecycleOf(a.kind, a.finished), g.lc)
    IN
    IF d.hit
    THEN [ a |-> [ a EXCEPT !.pc = IF a.kind = "start" THEN "startModule"
                                   ELSE "stopModule",
                    !.todo = d.rest ],
           g |-> [ g EXCEPT !.lc = d.lc,
                            !.hist = NoteHook(@, d.m,
                                LifecycleOf(a.kind, a.finished), 0) ] ]
    ELSE IF ~a.finished
    THEN AfterAll([ a EXCEPT !.finished = TRUE,
                             !.todo = invokeModuleMethod(App, TRUE) ], g)
    ELSE IF a.kind = "start"
    THEN \* appStartupSource.resolve(); return appRuntimeSource.promise
         [ a |-> [ a EXCEPT !.pc = "running", !.todo = << >>,
                            !.appStartupSource = FALSE,
                            !.appRuntimeSource = TRUE ],
           g |-> g ]
    ELSE \* clearLifecycleCache(); finally; shutdown() returns
         [ a |-> Finish(a), g |-> [ g EXCEPT !.lc = { } ] ]

\* appRuntimeSource.resolve(result): run() resolves to result, and start()
\* goes on to shutdown() when its continuation is scheduled
runResolved(a, result) ==
    [ a EXCEPT !.pc = "ran", !.appRuntimeSource = FALSE, !.result = result ]

\* start() goes on to shutdown(), up to the await of services.stopAll()
shutdown(a, ts, g, paths, result) ==
    LET r == stopAll(ts, g, paths)
    IN  World([ a EXCEPT !.pc = "stopAll", !.kind = "stop", !.rejected = FALSE,
                         !.appRuntimeSource = FALSE, !.appStopPending = TRUE,
                         !.result = result ],
              r.tasks, r.g, r.paths)

\* the listeners of the root manager: a critical event resolves the runtime
\* promise to false
IsCritical_any(level) == TRUE
IsCritical(level) == level = "critical"

handleError(level, a, ts, g, paths) ==
    IF IsCritical(level) /\ a.appRuntimeSource
    THEN World(runResolved(a, FALSE), ts, g, paths)
    ELSE World(a, ts, g, paths)

----------------------------------------------------------------------------
(* Application (packages/framework/src/application/Application.ts)         *)

\* abort(error, wasStopped) when the promise of start() follows the caller
\* (follows = TRUE) or only startPromiseSource; reason is the value the
\* promise of start() is rejected with
abort(a, wasStopped, follows, error) ==
    IF a.phase = "None" /\ ~wasStopped THEN Exit(a)
    ELSE IF a.abortOnError THEN Exit(a)
    ELSE IF a.startPromiseSource
    THEN [ a EXCEPT !.phase = "None", !.pc = "idle", !.todo = << >>, !.rejected = FALSE,
                    !.startPromiseSource = FALSE, !.outcome = "rejected",
                    !.reason = error ]
    ELSE \* throw error
         [ a EXCEPT !.phase = "None", !.pc = "idle", !.todo = << >>, !.rejected = FALSE,
                    !.outcome = IF follows THEN "rejected" ELSE @,
                    !.reason = IF follows THEN error ELSE @ ]

\* Application.stop() up to the await of services.stopAll(); who tells the
\* caller: the user, stopForError after a failed startAll(), or stopForError
\* called by handleError
stopPhase(a, ts, g, paths, who) ==
    IF ~a.startPromiseSource THEN World(a, ts, g, paths)
    ELSE LET r == stopAll(ts, g, paths)
         IN  World([ a EXCEPT !.pc = "stopAll", !.kind = "stop", !.rejected = FALSE,
                              !.phase = "Stopping", !.abortPromiseSource = "pending",
                              !.who = who ],
                   r.tasks, r.g, r.paths)

\* stopForError(error) up to the await of stop()
stopForError(a, ts, g, paths, who) ==
    LET b == [ a EXCEPT !.abortPromiseSource = IF @ = "pending" THEN "rejected" ELSE @ ]
    IN  IF b.phase = "Stopping"
        THEN World(abort(b, TRUE, who = "start",
                         IF who = "start" THEN "AbortError" ELSE "LogLevel"),
                   ts, g, paths)
        ELSE stopPhase(b, ts, g, paths, who)

\* the listeners of the root manager
handleErrorPhase(level, a, ts, g, paths) ==
    IF IsCritical(level) /\ a.phase = "Running"
    THEN stopForError(a, ts, g, paths, "critical")
    ELSE World(a, ts, g, paths)

\* start()/stop() after startAll()/stopAll(): the hooks of the application,
\* then the end of the call
RECURSIVE AfterAllPhase(_, _)
AfterAllPhase(a, g) ==
    LET d == invokeLifecycle(a.todo, LifecycleOf(a.kind, a.finished), g.lc)
    IN
    IF d.hit
    THEN [ a |-> [ a EXCEPT !.pc = IF a.kind = "start" THEN "startModule"
                                   ELSE "stopModule",
                    !.todo = d.rest ],
           g |-> [ g EXCEPT !.lc = d.lc,
                            !.hist = NoteHook(@, d.m,
                                LifecycleOf(a.kind, a.finished), 0) ] ]
    ELSE IF ~a.finished
    THEN AfterAllPhase([ a EXCEPT !.finished = TRUE,
                                  !.todo = invokeModuleMethod(App, TRUE) ], g)
    ELSE IF a.kind = "start"
    THEN \* this.phase = ApplicationPhase.Running; return startPromiseSource.promise
         [ a |-> [ a EXCEPT !.pc = "running", !.todo = << >>, !.phase = "Running" ],
           g |-> g ]
    ELSE \* clearLifecycleCache(); startPromiseSource?.resolve(); phase = None;
         \* stop() returns to its caller
         LET b == [ a EXCEPT !.pc = "idle", !.todo = << >>, !.phase = "None",
                             !.outcome = IF a.startPromiseSource /\ a.who # "start"
                                         THEN "resolved" ELSE @,
                             !.startPromiseSource = FALSE ]
         IN  [ a |-> IF a.who = "user" THEN b ELSE abort(b, TRUE, a.who = "start", "undefined"),
               g |-> [ g EXCEPT !.lc = { } ] ]

\* the listeners of the root manager, of the application that was built
RootListeners(level, a, ts, g, paths) ==
    IF a.impl = "src" THEN handleError(level, a, ts, g, paths)
    ELSE handleErrorPhase(level, a, ts, g, paths)

Shared == [ lc |-> lifecycleCache, active |-> active, registered |-> registered,
            hist |-> [ hist EXCEPT !.last = NoLast ] ]

Commit(g) ==
    /\ lifecycleCache' = g.lc
    /\ active' = g.active
    /\ registered' = g.registered
    /\ hist' = g.hist

CommitWorld(w) ==
    /\ app' = w.app
    /\ tasks' = Alive(w.app, w.tasks)
    /\ cachedPaths' = w.paths
    /\ Commit(w.g)

\* the records of a new start cycle
NewCycle(h) ==
    [ h EXCEPT !.last = NoLast, !.cycle = @ + 1, !.fired = { },
               !.refired = { }, !.startDone = { }, !.started = { },
               !.stopCalled = { }, !.ignored = { }, !.failed = { },
               !.stopNoop = { }, !.critical = 0, !.atStop = { },
               !.atAbort = { }, !.failedPaths = { } ]

\* Application.start() up to the await of boot(): the first call registers
\* the services of the module tree and resolves them
start(abortOnError) ==
    \/ \* if (this.appActive) return: the promise of this call resolves
       /\ app.appActive /\ app.pc # "exited"
       /\ hist' = [ hist EXCEPT !.last = [ NoLast EXCEPT !.op = "Application.start",
                                                        !.ev = "returns" ] ]
       /\ UNCHANGED << errors, cfg, services, cachedPaths, active, registered,
                       lifecycleCache, tasks, app >>
    \/ /\ app.pc = "idle" /\ ~app.appActive
       /\ hist.cycle < MaxCycles
       /\ app' = [ app EXCEPT !.pc = "boot", !.appActive = TRUE, !.isBootstrapped = TRUE,
                              !.abortOnError = abortOnError, !.result = TRUE,
                              !.outcome = "pending", !.reason = "none" ]
       /\ IF app.isBootstrapped
          THEN UNCHANGED << services, cachedPaths >>
          ELSE /\ services' = RemoveDuplicates(registerFromModule(App))
               /\ cachedPaths' = getResolutionOrder(services', cfg.params)
       /\ hist' = NewCycle(hist)
       /\ UNCHANGED << errors, cfg, active, registered, lifecycleCache, tasks >>

\* Application.run() up to the await of services.startAll()
run ==
    /\ app.pc = "boot"
    /\ LET r == startAll(tasks, Shared, cachedPaths)
       IN  /\ tasks' = r.tasks
           /\ Commit(r.g)
    /\ app' = [ app EXCEPT !.pc = "startAll", !.kind = "start", !.rejected = FALSE,
                           !.appStartupSource = TRUE, !.appShutdownSource = TRUE ]
    /\ UNCHANGED << errors, cfg, services, cachedPaths >>

\* an onPath coroutine resumes; when the awaited call has thrown, the
\* critical event of errors.abort() reaches the root manager
onPath(i, ok) ==
    /\ i \in DOMAIN tasks
    /\ ok \/ (tasks[i].pc # "hook" /\ hist.failures < MaxFailures)
    /\ \E thrown \in IF ok THEN { [ kind |-> "undefined", chain |-> << >> ] } ELSE Thrown :
         LET r    == Resume(tasks[i], Shared, cachedPaths, ok, thrown)
             gone == r.t.pc \in { "done", "failed" }
             rest == IF gone
                     THEN SubSeq(tasks, 1, i - 1) \o SubSeq(tasks, i + 1, Len(tasks))
                     ELSE [ tasks EXCEPT ![i] = r.t ]
             a    == IF r.t.pc = "failed" /\ tasks[i].awaited
                     THEN [ app EXCEPT !.rejected = TRUE ] ELSE app
         IN  CommitWorld(IF r.t.pc = "failed"
                         THEN RootListeners("critical", a, rest, r.g, cachedPaths)
                         ELSE World(a, rest, r.g, cachedPaths))
    /\ UNCHANGED << errors, cfg, services >>

Awaited == { i \in DOMAIN tasks : tasks[i].awaited }

Detached_cancelled == << >>
Detached == [ i \in DOMAIN tasks |-> [ tasks[i] EXCEPT !.awaited = FALSE ] ]

\* run(): startAll() has resolved; startModule(this, false/true) follow
runStarted ==
    /\ app.pc = "startAll" /\ ~app.rejected /\ Awaited = { }
    /\ LET r == AfterAll([ app EXCEPT !.finished = FALSE,
                                      !.todo = invokeModuleMethod(App, FALSE) ], Shared)
       IN  app' = r.a /\ Commit(r.g)
    /\ UNCHANGED << errors, cfg, services, cachedPaths, tasks >>

\* run(): startAll() has rejected; run() returns false and start() awaits
\* shutdown(), which awaits appStartupSource.promise
runFailed ==
    /\ app.pc = "startAll" /\ app.rejected
    /\ app' = [ app EXCEPT !.pc = "hung", !.rejected = FALSE, !.result = FALSE ]
    /\ tasks' = Detached
    /\ hist' = Uncaught([ hist EXCEPT !.last = NoLast ], "AbortError")
    /\ UNCHANGED << errors, cfg, services, cachedPaths, active, registered,
                    lifecycleCache >>

\* the hooks awaited by startModule(this, ..)/stopModule(this, ..) return
moduleHooksDone ==
    /\ app.pc \in { "startModule", "stopModule" }
    /\ LET r == AfterAll(app, Shared)
       IN  CommitWorld(World(r.a, tasks, r.g, cachedPaths))
    /\ UNCHANGED << errors, cfg, services >>

\* Application.stop(): while a shutdown is pending the call returns the
\* promise of appShutdownSource ("waits"); while running it resolves
\* appRuntimeSource to true and returns that promise ("requested");
\* otherwise it returns at once ("returns")
stop ==
    /\ app.pc # "exited"
    /\ app' = IF ~app.appStopPending /\ app.appRuntimeSource
              THEN runResolved(app, TRUE) ELSE app
    /\ hist' = [ hist EXCEPT !.last = [ NoLast EXCEPT !.op = "Application.stop",
                    !.ev = IF app.appStopPending THEN "waits"
                           ELSE IF app.appRuntimeSource THEN "requested"
                           ELSE "returns" ] ]
    /\ UNCHANGED << errors, cfg, services, cachedPaths, active, registered,
                    lifecycleCache, tasks >>

\* start() after run() has resolved: shutdown() up to the await of stopAll()
shutdownBegins ==
    /\ app.pc = "ran"
    /\ CommitWorld(shutdown(app, tasks, Shared, cachedPaths, app.result))
    /\ UNCHANGED << errors, cfg, services >>

\* shutdown(): stopAll() has resolved; stopModule(this, false/true) follow
shutdownStopped ==
    /\ app.pc = "stopAll" /\ ~app.rejected /\ Awaited = { }
    /\ LET r == AfterAll([ app EXCEPT !.finished = FALSE,
                                      !.todo = invokeModuleMethod(App, FALSE) ], Shared)
       IN  CommitWorld(World(r.a, tasks, r.g, cachedPaths))
    /\ UNCHANGED << errors, cfg, services >>

\* shutdown(): stopAll() has rejected; the catch and the finally block run
shutdownFailed ==
    /\ app.pc = "stopAll" /\ app.rejected
    /\ CommitWorld(World(Finish(app), Detached,
                         [ Shared EXCEPT !.hist = Uncaught(Shared.hist, "AbortError") ],
                         cachedPaths))
    /\ UNCHANGED << errors, cfg, services >>

\* user code emits an error on an error manager and the event reaches the
\* root manager
Emitted(level) ==
    [ Shared EXCEPT !.hist.emitted = @ + 1,
                    !.hist.last = [ NoLast EXCEPT !.op = level, !.ev = app.phase ] ]

emitPassiveError ==
    /\ app.isBootstrapped /\ app.pc # "exited" /\ hist.emitted < MaxErrors
    /\ CommitWorld(RootListeners("passive", app, tasks, Emitted("passive"), cachedPaths))
    /\ UNCHANGED << errors, cfg, services >>

emitCriticalError ==
    /\ app.isBootstrapped /\ app.pc # "exited" /\ hist.emitted < MaxErrors
    /\ CommitWorld(RootListeners("critical", app, tasks, Emitted("critical"), cachedPaths))
    /\ UNCHANGED << errors, cfg, services >>

----------------------------------------------------------------------------
(* The programs the lifecycle specification runs                           *)

DB == 1
Cache == 2
API == 3

Opt(svcs, imports) == [ services |-> svcs, imports |-> imports ]

\* DB <- Cache <- API, all in the application
Chain ==
    [ params  |-> << << >>, << DB >>, << Cache, DB >> >>,
      options |-> (App :> Opt(<< DB, Cache, API >>, << >>)) ]

\* services 2 and 3 of module M both depend on service 1 of the application
SharedDep ==
    [ params  |-> << << >>, << 1 >>, << 1 >> >>,
      options |-> (App :> Opt(<< 1 >>, << "M" >>)) @@ ("M" :> Opt(<< 2, 3 >>, << >>)) ]

\* module P owns nothing; its imports C1 and C2 own one service each
PassThrough ==
    [ params  |-> << << >>, << >> >>,
      options |-> (App :> Opt(<< >>, << "P" >>)) @@ ("P" :> Opt(<< >>, << "C1", "C2" >>))
                  @@ ("C1" :> Opt(<< 1 >>, << >>)) @@ ("C2" :> Opt(<< 2 >>, << >>)) ]

Programs == { Chain, SharedDep, PassThrough }

NoHist(classes) ==
    [ last |-> NoLast, cycle |-> 0, failures |-> 0,
      regCalls |-> [ c \in classes |-> 0 ], startCalls |-> [ c \in classes |-> 0 ],
      startDone |-> { }, started |-> { }, stopCalled |-> { }, ignored |-> { },
      fired |-> { }, refired |-> { }, failed |-> { }, stopNoop |-> { },
      critical |-> 0, emitted |-> 0, atStop |-> { }, atAbort |-> { },
      failedPaths |-> { } ]

NoApp ==
    [ pc |-> "idle", kind |-> "start", finished |-> FALSE, todo |-> << >>,
      rejected |-> FALSE, isBootstrapped |-> FALSE, appActive |-> FALSE,
      appStopPending |-> FALSE, appStartupSource |-> FALSE,
      appRuntimeSource |-> FALSE, appShutdownSource |-> FALSE,
      abortOnError |-> TRUE, result |-> TRUE, outcome |-> "none", reason |-> "none",
      impl |-> "src", phase |-> "None", startPromiseSource |-> FALSE,
      abortPromiseSource |-> "none", who |-> "none" ]

----------------------------------------------------------------------------
(* ErrorManager: propagation of an event                                   *)

MaxManagers == 4
MaxListeners == 2

\* the manager the application constructs for itself
Root == 1

\* the root manager alone, without listeners; nothing emitted yet
NoErrors ==
    [ targets |-> << << >> >>, listeners |-> << << >> >>,
      emitter |-> 0, critical |-> FALSE, receipts |-> << >>, stopped |-> 0 ]

\* the record of the event emitted last is dropped when the managers change
Forget(e) == [ e EXCEPT !.emitter = 0, !.critical = FALSE,
                        !.receipts = << >>, !.stopped = 0 ]

\* the managers an event emitted on m can travel to
RECURSIVE Above(_, _)
Above(e, m) ==
    SeqToSet(e.targets[m])
        \cup UNION { Above(e, t) : t \in SeqToSet(e.targets[m]) }

\* ErrorEvent.canPropagate(event)
canPropagate_always(event) == TRUE
canPropagate(event) == event.propagate

\* event.stopPropagation(), called by a listener while the event is at the
\* manager of the latest receipt
stopPropagation(event) ==
    [ event EXCEPT !.propagate = FALSE,
                   !.stopped = IF @ = 0 THEN Len(event.receipts) ELSE @ ]

\* the listeners of one manager for eventName, in the order they were added;
\* all of them are called, also after one of them stopped the propagation
RECURSIVE CallListeners(_, _, _, _)
CallListeners(ls, i, eventName, event) ==
    IF i > Len(ls) THEN event
    ELSE CallListeners(ls, i + 1, eventName,
             IF ls[i].event = eventName /\ ls[i].does = "stopPropagation"
             THEN stopPropagation(event)
             ELSE event)

\* ErrorManager._propagateEvent(event, critical) on manager m: its own
\* listeners, then its target managers in insertion order until the event
\* cannot propagate
RECURSIVE propagateEvent(_, _, _, _)
RECURSIVE ToTargets(_, _, _, _, _)
propagateEvent(e, m, eventName, event) ==
    ToTargets(e, e.targets[m], 1, eventName,
              CallListeners(e.listeners[m], 1, eventName,
                            [ event EXCEPT !.receipts = Append(@, m) ]))

ToTargets(e, ts, i, eventName, event) ==
    IF i > Len(ts) THEN event
    ELSE IF canPropagate(event)
         THEN ToTargets(e, ts, i + 1, eventName,
                        propagateEvent(e, ts[i], eventName, event))
         ELSE event

InitSets ==
    /\ services = << >>
    /\ cachedPaths = Undefined
    /\ active = { }
    /\ registered = { }
    /\ lifecycleCache = { }
    /\ tasks = << >>
    /\ hist = NoHist(DOMAIN cfg.params)
    /\ errors = NoErrors

InitManagers ==
    /\ InitSets
    /\ app = NoApp

Init ==
    /\ cfg \in Programs
    /\ InitManagers

Next ==
    \/ \E abortOnError \in BOOLEAN : start(abortOnError)
    \/ run
    \/ \E i \in DOMAIN tasks : \E ok \in BOOLEAN : onPath(i, ok)
    \/ runStarted
    \/ runFailed
    \/ moduleHooksDone
    \/ stop
    \/ shutdownBegins
    \/ shutdownStopped
    \/ shutdownFailed
    \/ emitPassiveError
    \/ emitCriticalError

Spec == Init /\ [][Next]_vars

----------------------------------------------------------------------------
(* The application of packages/framework                                   *)

\* Application.start() up to the await of services.startAll(): the first
\* call bootstraps the application
ApplicationStart(abortOnError) ==
    \/ \* if (this.startPromiseSource) return: the promise of this call resolves
       /\ app.startPromiseSource /\ app.pc # "exited"
       /\ hist' = [ hist EXCEPT !.last = [ NoLast EXCEPT !.op = "Application.start",
                                                        !.ev = "returns" ] ]
       /\ UNCHANGED << errors, cfg, services, cachedPaths, active, registered,
                       lifecycleCache, tasks, app >>
    \/ /\ app.pc = "idle" /\ ~app.startPromiseSource
       /\ hist.cycle < MaxCycles
       /\ services' = IF app.isBootstrapped THEN services
                      ELSE RemoveDuplicates(registerFromModule(App))
       /\ LET paths == IF app.isBootstrapped THEN cachedPaths
                       ELSE getResolutionOrder(services', cfg.params)
              r == startAll(tasks, [ Shared EXCEPT !.hist = NewCycle(hist) ], paths)
          IN  CommitWorld(World(
                  [ app EXCEPT !.pc = "startAll", !.kind = "start", !.rejected = FALSE,
                               !.isBootstrapped = TRUE, !.abortOnError = abortOnError,
                               !.phase = "Starting", !.startPromiseSource = TRUE,
                               !.abortPromiseSource = "pending",
                               !.outcome = "pending", !.reason = "none",
                               !.who = "none" ],
                  r.tasks, r.g, r.paths))
       /\ UNCHANGED << errors, cfg >>

\* start(): startAll() has resolved; source.resolve() and the hooks of the
\* application follow
startAllResolved ==
    /\ app.pc = "startAll" /\ ~app.rejected /\ Awaited = { }
    /\ LET r == AfterAllPhase([ app EXCEPT !.finished = FALSE,
                                           !.abortPromiseSource = "resolved",
                                           !.todo = invokeModuleMethod(App, FALSE) ],
                              Shared)
       IN  CommitWorld(World(r.a, tasks, r.g, cachedPaths))
    /\ UNCHANGED << errors, cfg, services >>

\* start(): startAll() has rejected; return await this.stopForError(error)
startAllRejected ==
    /\ app.pc = "startAll" /\ app.rejected
    /\ CommitWorld(stopForError(app, Detached, Shared, cachedPaths, "start"))
    /\ UNCHANGED << errors, cfg, services >>

\* the user calls Application.stop() while the application runs
ApplicationStop ==
    /\ app.pc = "running"
    /\ CommitWorld(stopPhase(app, tasks, Shared, cachedPaths, "user"))
    /\ UNCHANGED << errors, cfg, services >>

\* stop(): stopAll() has resolved; source.resolve() and the hooks of the
\* application follow
stopAllResolved ==
    /\ app.pc = "stopAll" /\ ~app.rejected /\ Awaited = { }
    /\ LET r == AfterAllPhase([ app EXCEPT !.finished = FALSE,
                                           !.abortPromiseSource = "resolved",
                                           !.todo = invokeModuleMethod(App, FALSE) ],
                              Shared)
       IN  CommitWorld(World(r.a, tasks, r.g, cachedPaths))
    /\ UNCHANGED << errors, cfg, services >>

\* stop(): stopAll() has rejected; return await this.abort(error)
stopAllRejected ==
    /\ app.pc = "stopAll" /\ app.rejected
    /\ CommitWorld(World(abort(app, FALSE, app.who = "start", "AbortError"), Detached,
                         Shared, cachedPaths))
    /\ UNCHANGED << errors, cfg, services >>

\* the hooks awaited by startModule(this, ..)/stopModule(this, ..) return
applicationHooksDone ==
    /\ app.pc \in { "startModule", "stopModule" }
    /\ LET r == AfterAllPhase(app, Shared)
       IN  CommitWorld(World(r.a, tasks, r.g, cachedPaths))
    /\ UNCHANGED << errors, cfg, services >>

InitPhase ==
    /\ cfg \in { Chain, SharedDep }
    /\ InitSets
    /\ app = [ NoApp EXCEPT !.impl = "packages" ]

NextPhase ==
    \/ \E abortOnError \in BOOLEAN : ApplicationStart(abortOnError)
    \/ \E i \in DOMAIN tasks : \E ok \in BOOLEAN : onPath(i, ok)
    \/ startAllResolved
    \/ startAllRejected
    \/ applicationHooksDone
    \/ ApplicationStop
    \/ stopAllResolved
    \/ stopAllRejected
    \/ emitPassiveError
    \/ emitCriticalError

SpecPhase == InitPhase /\ [][NextPhase]_vars

----------------------------------------------------------------------------
(* Load paths of arbitrary acyclic programs                                *)

InitOrder ==
    /\ cfg = [ params  |-> [ c \in Classes |-> << >> ],
               options |-> (App :> Opt(<< >>, << >>)) ]
    /\ InitManagers

\* ApplicationServiceManager.register(service, module) of the next class,
\* whose constructor parameters are drawn here
register(service, params) ==
    /\ service \notin SeqToSet(services)
    /\ service \notin Reach(SeqToSet(params), cfg.params, MaxServices)
    /\ cfg' = [ cfg EXCEPT !.params[service] = params ]
    /\ services' = Append(services, service)
    /\ cachedPaths' = Undefined
    /\ UNCHANGED << errors, active, registered, lifecycleCache, tasks, app, hist >>

\* resolveAll(): the load paths are computed unless they are cached
resolveAll ==
    /\ cachedPaths' = IF cachedPaths = Undefined
                      THEN getResolutionOrder(services, cfg.params)
                      ELSE cachedPaths
    /\ UNCHANGED << errors, cfg, services, active, registered, lifecycleCache, tasks, app, hist >>

NextOrder ==
    \/ \E service \in { Len(services) + 1 } \cap Classes :
         \E params \in Arrangements(Classes \ { service }, MaxParams) :
             register(service, params)
    \/ resolveAll

SpecOrder == InitOrder /\ [][NextOrder]_vars

----------------------------------------------------------------------------
(* The error managers of an application                                    *)

\* parent.createManager(sender): a new manager whose only target is parent
createManager(parent) ==
    /\ Len(errors.targets) < MaxManagers
    /\ errors' = [ Forget(errors) EXCEPT !.targets = Append(@, << parent >>),
                                         !.listeners = Append(@, << >>) ]
    /\ UNCHANGED << cfg, services, cachedPaths, active, registered,
                    lifecycleCache, tasks, app, hist >>

\* manager.attach(target): manager becomes a further target of the given
\* manager (Set.add: nothing changes when it already is one); managers that
\* would forward to each other in a circle are not attached
attach(manager, target) ==
    /\ manager # target
    /\ target \notin Above(errors, manager)
    /\ errors' = IF manager \in SeqToSet(errors.targets[target])
                 THEN errors
                 ELSE [ Forget(errors) EXCEPT !.targets[target] = Append(@, manager) ]
    /\ UNCHANGED << cfg, services, cachedPaths, active, registered,
                    lifecycleCache, tasks, app, hist >>

\* manager.on(event, callback), the callback either only looking at the
\* event or calling event.stopPropagation()
on(manager, event, does) ==
    /\ Len(Concat(errors.listeners)) < MaxListeners
    /\ errors' = [ Forget(errors) EXCEPT
                     !.listeners[manager] = Append(@, [ event |-> event, does |-> does ]) ]
    /\ UNCHANGED << cfg, services, cachedPaths, active, registered,
                    lifecycleCache, tasks, app, hist >>

\* manager.emitPassiveError(error) / manager.emitCriticalError(error): the
\* event is created and propagated before the call returns
emitError(manager, critical) ==
    /\ LET event == propagateEvent(errors, manager,
                                   IF critical THEN "critical" ELSE "passive",
                                   [ propagate |-> TRUE, receipts |-> << >>, stopped |-> 0 ])
       IN errors' = [ errors EXCEPT !.emitter = manager, !.critical = critical,
                                    !.receipts = event.receipts,
                                    !.stopped = event.stopped ]
    /\ UNCHANGED << cfg, services, cachedPaths, active, registered,
                    lifecycleCache, tasks, app, hist >>

InitErrors ==
    /\ cfg = Chain
    /\ InitManagers

NextErrors ==
    \/ \E parent \in DOMAIN errors.targets : createManager(parent)
    \/ \E manager, target \in DOMAIN errors.targets : attach(manager, target)
    \/ \E manager \in DOMAIN errors.targets :
         \E event \in { "passive", "critical" } :
           \E does \in { "observe", "stopPropagation" } : on(manager, event, does)
    \/ \E manager \in DOMAIN errors.targets :
         \E critical \in BOOLEAN : emitError(manager, critical)

SpecErrors == InitErrors /\ [][NextErrors]_vars

----------------------------------------------------------------------------
(* Properties                                                              *)

Registered == SeqToSet(services)

\* the registered services s depends on, directly
Dependencies(s) == SeqToSet(cfg.params[s]) \cap Registered

RECURSIVE Closure(_, _)
Closure(S, fuel) ==
    IF fuel = 0 THEN S
    ELSE Closure(S \cup UNION { Dependencies(x) : x \in S }, fuel - 1)

\* the registered services s depends on, directly or transitively
AllDependencies(s) == Closure(Dependencies(s), Len(services))

Dependents(s) == { u \in Registered : s \in Dependencies(u) }

\* every module above the service, the application included
Ancestors(s) == SeqToSet(getParentModules(s))

RECURSIVE Under(_)
Under(m) ==
    { m } \cup UNION { Under(getChildModules(m)[j]) : j \in DOMAIN getChildModules(m) }

\* the services a module owns, directly or through descendant modules
DeepOwned(m) == { s \in Registered : ParentOf(s) \in Under(m) }

NoDuplicates(path) == \A i, j \in DOMAIN path : path[i] = path[j] => i = j

DependenciesFirst(path) ==
    \A i \in DOMAIN path :
        \A d \in AllDependencies(path[i]) :
            \E j \in 1 .. (i - 1) : path[j] = d

\* the load paths of the registered services, as the documentation of
\* getResolutionOrder defines them
LoadPaths == getResolutionOrder(services, cfg.params)

Running(op) == { i \in DOMAIN tasks : tasks[i].pc = op }

\* C1: every load path computed for an acyclic set of registered services
\* is free of duplicates and holds every (transitive) dependency of each of
\* its services at an earlier position
C1_LoadPathsOrdered ==
    cachedPaths # Undefined =>
        \A p \in DOMAIN cachedPaths :
            NoDuplicates(cachedPaths[p]) /\ DependenciesFirst(cachedPaths[p])

\* a computed path in which a service has two dependencies of which one
\* depends on the other, so that the walk meets a service twice
C1_Witness ==
    /\ cachedPaths # Undefined
    /\ \E p \in DOMAIN cachedPaths : \E s, d, e \in SeqToSet(cachedPaths[p]) :
          /\ d # e
          /\ { d, e } \subseteq Dependencies(s)
          /\ d \in Dependencies(e)

\* C2: whatever startAll() and stopAll() calls were made, the cached load
\* paths list every dependency before its dependents
C2_CachedPathsStayOrdered ==
    (app.isBootstrapped /\ cachedPaths # Undefined) =>
        \A p \in DOMAIN cachedPaths :
            \A i, j \in DOMAIN cachedPaths[p] :
                cachedPaths[p][i] \in AllDependencies(cachedPaths[p][j]) => i < j

\* C3: start() of a service is invoked only after start() of every service
\* before it on its load path has completed, and stop() only after stop()
\* was invoked on every started service after it on its load path
C3_PathOrder ==
    LET l == hist.last
        path == LoadPaths[l.p]
        at == IndexOf(path, l.s)
    IN  /\ l.op = "start" =>
              \A j \in 1 .. (at - 1) : path[j] \in hist.startDone
        /\ l.op = "stop" =>
              \A j \in (at + 1) .. Len(path) :
                  path[j] \in hist.started => path[j] \in hist.stopCalled

\* C4: when register() or start() of a service is invoked, every service
\* it depends on is in the active set
C4_DependenciesActive ==
    hist.last.op \in { "register", "start" } =>
        Dependencies(hist.last.s) \subseteq active

\* C5: when stop() of a service is invoked, no service that depends on it
\* is in the active set
C5_DependentsInactive ==
    hist.last.op = "stop" => Dependents(hist.last.s) \cap active = { }

\* C6: onModuleBoot of a module fires at most once in a start cycle, at a
\* moment when every service the module owns, directly or through
\* descendant modules, is active; once the application runs it has fired
\* for every module
C6_AfterStartHook ==
    /\ \A x \in hist.refired : x[2] # "onModuleBoot"
    /\ (hist.last.op = "hook" /\ hist.last.ev = "onModuleBoot") =>
           DeepOwned(hist.last.m) \subseteq active
    /\ (app.pc = "running" /\ hist.failures = 0) =>
           \A m \in Modules : << m, "onModuleBoot" >> \in hist.fired

\* C7: when onModuleBoot of a module is invoked no service of the module
\* is executing register() or start(), and when onModuleShutdown is
\* invoked no service of the module is executing stop()
C7_HooksAfterLastService ==
    LET l == hist.last
        busy(ops) == { tasks[i].s : i \in { j \in DOMAIN tasks : tasks[j].pc \in ops } }
    IN  /\ (l.op = "hook" /\ l.ev = "onModuleBoot") =>
               busy({ "register", "start" }) \cap ModuleInstances(l.m) = { }
        /\ (l.op = "hook" /\ l.ev = "onModuleShutdown") =>
               busy({ "stop" }) \cap ModuleInstances(l.m) = { }

\* C8: when register() or start() of a service is invoked, beforeModuleBoot
\* of every module above it has fired in this start cycle; it fires for a
\* module only after it fired for the modules above that module, and at
\* most once in a start cycle
C8_BeforeStartHooks ==
    LET l == hist.last
    IN  /\ l.op \in { "register", "start" } =>
               \A m \in Ancestors(l.s) : << m, "beforeModuleBoot" >> \in hist.fired
        /\ (l.op = "hook" /\ l.ev = "beforeModuleBoot") =>
               \A m \in SeqToSet(ModuleChain(getParentModule(l.m))) \cup { App } :
                   << m, "beforeModuleBoot" >> \in hist.fired
        /\ \A x \in hist.refired : x[2] # "beforeModuleBoot"

\* C9: register() and start() of a service are never executed by two
\* requests at once, and between two stops of the service each is executed
\* at most once; a request that finds the service active calls neither
C9_StartOnce ==
    /\ \A i, j \in Running("register") \cup Running("start") :
           tasks[i].s = tasks[j].s => i = j
    /\ \A s \in Registered : hist.startCalls[s] <= 1 /\ hist.regCalls[s] <= 1

Quiescent == tasks = << >> /\ app.pc \in { "idle", "running", "hung", "exited" }

\* start() has settled: the process has exited or the promise is settled
Settled == app.outcome \in { "exit", "resolved", "rejected" }

StartFailed == { s \in Registered : << "start", s >> \in hist.failed }

StopFailed == { s \in Registered : << "stop", s >> \in hist.failed }

\* C12 (as stated): a start() that throws during startAll() is reported as
\* one critical event whose chain has length 2, the thrown cause first and
\* the error of the start operation last, and startAll() fails
C12_StartFailureChainOfTwo ==
    (hist.last.op = "abort" /\ hist.last.ev = "start") =>
        /\ Len(hist.last.chain) = 2
        /\ hist.last.chain[2] = "start"
        /\ hist.last.chain[1] \in { "cause", "Error(cause)", "Error(unknown)" }
        /\ hist.critical = Cardinality(hist.failed)
        /\ app.rejected \/ app.pc = "hung"

\* C12 (amended): the chain of the one critical event ends with the error
\* of the start operation, preceded by what was thrown: one error for a
\* thrown error, string or other value, the errors of a thrown array or
\* event, nothing for undefined; startAll() fails
C12_StartFailureChain ==
    (hist.last.op = "abort" /\ hist.last.ev = "start") =>
        LET chain == hist.last.chain
            n     == Len(chain)
        IN  /\ n >= 1 /\ chain[n] = "start"
            /\ \A j \in 1 .. (n - 1) : chain[j] # "start"
            /\ hist.last.thrown \in { "Error", "string", "other" } => n = 2
            /\ hist.last.thrown = "undefined" => n = 1
            /\ hist.last.thrown \in { "Array", "ErrorEvent" } =>
                   \A j \in 1 .. (n - 1) : chain[j] = "inner"
            /\ hist.critical = Cardinality(hist.failed)
            /\ app.rejected \/ app.pc = "hung"

\* start() of a service has thrown an array of two errors
C12_Witness ==
    /\ hist.last.op = "abort" /\ hist.last.ev = "start"
    /\ hist.last.thrown = "Array" /\ Len(hist.last.chain) = 3
    /\ app.rejected

\* C13: when start() of a service has thrown during startAll() and nothing
\* is left to run, stop() was invoked on every service that had started
\* before the failure and start() of the application has settled (the
\* process has exited, or the promise is rejected)
C13_FailedStartSettles ==
    (StartFailed # { } /\ Quiescent) =>
        /\ hist.atAbort \subseteq hist.stopCalled
        /\ app.outcome \in { "exit", "rejected" }
        /\ app.abortOnError => app.outcome = "exit"

\* C14: when start() of a service has thrown and nothing is left to run,
\* stop() was invoked on that service, and the application is not running
C14_StopAfterFailedStart ==
    (StartFailed # { } /\ Quiescent) =>
        /\ StartFailed \subseteq hist.stopCalled
        /\ app.pc # "running"

\* C15: when stop() of a service has thrown during the shutdown, start() of
\* the application does not end as a successful shutdown: the process has
\* exited when abortOnError is on, otherwise the promise is rejected
C15_FailedStopFails ==
    (StopFailed # { } /\ Settled) =>
        /\ app.outcome # "resolved"
        /\ app.abortOnError => app.outcome = "exit"

\* C11: a call of stop() on a service that is not active fires no hook,
\* invokes no stop() and leaves the active and registered sets alone
C11_StopInactiveNoop ==
    \A r \in hist.stopNoop : r.hooks = { }

\* the services that were active when stopAll() began and lie on a load
\* path other than the ones whose stop() has thrown
OnOtherPaths ==
    { s \in hist.atStop :
        \E p \in DOMAIN cachedPaths \ hist.failedPaths : s \in SeqToSet(cachedPaths[p]) }

\* C16 (as stated): when stop() of a service has thrown during stopAll()
\* and nothing is left to run, stop() was invoked on every service that was
\* active on another load path
C16_OtherPathsStopped ==
    (StopFailed # { } /\ Quiescent) => OnOtherPaths \subseteq hist.stopCalled

\* C16 (amended): the same, unless the process has exited
C16_OtherPathsStoppedUnlessExit ==
    (StopFailed # { } /\ Quiescent /\ app.pc # "exited") =>
        OnOtherPaths \subseteq hist.stopCalled

\* stop() has thrown on one path, the other path went on and has stopped
\* a service of its own
C16_Witness ==
    /\ StopFailed # { } /\ Quiescent /\ app.pc # "exited"
    /\ \E s \in OnOtherPaths \cap hist.stopCalled :
          \A p \in hist.failedPaths : s \notin SeqToSet(cachedPaths[p])

\* C18: a step that emits a passive error leaves the application, the
\* active set, the coroutines of the load paths and every other set of
\* the managers as they were
C18_PassiveNeverInterrupts ==
    [][ hist'.last.op = "passive" =>
            /\ app' = app /\ tasks' = tasks /\ active' = active
            /\ registered' = registered /\ lifecycleCache' = lifecycleCache
            /\ cachedPaths' = cachedPaths ]_vars

\* a passive error was emitted while the application runs
C18_Witness ==
    /\ hist.last.op = "passive" /\ hist.last.ev = "Running"
    /\ app.phase = "Running" /\ active # { }

\* C19: when a critical error has reached the root manager while the
\* application runs, no call of a service has thrown and start() has
\* settled, stop() was invoked on every service that was active, and the
\* process has exited when abortOnError is on, otherwise the promise of
\* start() is rejected
C19_CriticalWhileRunning ==
    (app.who = "critical" /\ Settled /\ hist.failures = 0) =>
        /\ hist.atStop \subseteq hist.stopCalled
        /\ app.abortOnError => app.outcome = "exit"
        /\ ~app.abortOnError => app.outcome = "rejected"

\* C20: a critical error that reaches the root manager when the
\* application has stopped (phase None, start() settled) ends the process
C20_LateCriticalTerminates ==
    (hist.last.op = "critical" /\ hist.last.ev = "None" /\ Settled) =>
        app.pc = "exited"


----------------------------------------------------------------------------
(* ErrorManager: attached promises and emitters                            *)

MaxTargets == 1
MaxAttach == 2
MaxEvents == 2

\* one manager; promises and emitters of the program that it may be given.
\* watchers are the reactions attachPromise() added with then(), handlers
\* the 'error' listeners attachEmitter() added with on(); events counts the
\* error events the manager emitted for a target, expected the 'error'
\* events an emitter emitted while it was attached
NoAttached ==
    [ _attachedPromises |-> { }, _attachedEmitters |-> { },
      state    |-> [ p \in 1 .. MaxTargets |-> "pending" ],
      watchers |-> [ p \in 1 .. MaxTargets |-> << >> ],
      detached |-> { },
      handlers |-> [ e \in 1 .. MaxTargets |-> << >> ],
      events   |-> [ kind \in { "promise", "emitter" } |-> [ t \in 1 .. MaxTargets |-> 0 ] ],
      expected |-> [ e \in 1 .. MaxTargets |-> 0 ],
      last     |-> [ op |-> "none", target |-> 0, raised |-> FALSE ] ]

Last(op, target, raised) == [ op |-> op, target |-> target, raised |-> raised ]

\* the rejection reactions of attachPromise() for promise p, one after the
\* other: an event is emitted if _attachedPromises.delete(p) finds p
RECURSIVE Rejected(_, _, _)
Rejected(e, p, n) ==
    IF n = 0 THEN e
    ELSE Rejected(IF p \in e._attachedPromises
                  THEN [ e EXCEPT !._attachedPromises = @ \ { p },
                                  !.events["promise"][p] = @ + 1 ]
                  ELSE e,
                  p, n - 1)

\* manager.attach(promise, critical): target.then(onFulfilled, onRejected);
\* on a promise that has rejected already the reaction runs right away
attachPromise(p, critical) ==
    /\ Len(errors.watchers[p]) < MaxAttach
    /\ errors' = [ (IF errors.state[p] = "rejected" THEN Rejected(errors, p, 1) ELSE errors)
                     EXCEPT !.watchers[p] = Append(@, critical),
                            !.last = Last("attach", p, FALSE) ]
    /\ UNCHANGED << cfg, services, cachedPaths, active, registered,
                    lifecycleCache, tasks, app, hist >>

\* the promise settles and the reactions added by attachPromise() run
settle(p, fulfilled) ==
    /\ errors.state[p] = "pending"
    /\ errors' = [ (IF fulfilled
                    THEN [ errors EXCEPT !._attachedPromises = @ \ { p } ]
                    ELSE Rejected(errors, p, Len(errors.watchers[p])))
                     EXCEPT !.state[p] = IF fulfilled THEN "fulfilled" ELSE "rejected",
                            !.last = Last("settle", p, FALSE) ]
    /\ UNCHANGED << cfg, services, cachedPaths, active, registered,
                    lifecycleCache, tasks, app, hist >>

\* manager.attach(emitter, critical)
attachEmitter(e, critical) ==
    /\ errors' = [ (IF e \notin errors._attachedEmitters
                    THEN [ errors EXCEPT !.handlers[e] = Append(@, critical),
                                         !._attachedEmitters = @ \cup { e } ]
                    ELSE errors)
                     EXCEPT !.last = Last("attach", e, FALSE) ]
    /\ UNCHANGED << cfg, services, cachedPaths, active, registered,
                    lifecycleCache, tasks, app, hist >>

\* the emitter emits 'error': every handler on it emits one error event
emitterError(e) ==
    /\ errors.expected[e] < MaxEvents
    /\ errors' = [ errors EXCEPT
                     !.events["emitter"][e] = @ + Len(errors.handlers[e]),
                     !.expected[e] = IF e \in errors._attachedEmitters THEN @ + 1 ELSE @,
                     !.last = Last("error", e, FALSE) ]
    /\ UNCHANGED << cfg, services, cachedPaths, active, registered,
                    lifecycleCache, tasks, app, hist >>

\* manager.detach(target) of a promise or an emitter: the branch of the
\* target's type, then the throw that ends the method
detach(kind, target) ==
    /\ errors' = [ (IF kind = "promise"
                    THEN [ errors EXCEPT !._attachedPromises = @ \ { target },
                                         !.detached = @ \cup { target } ]
                    ELSE IF target \in errors._attachedEmitters
                    THEN [ errors EXCEPT !.handlers[target] = << >>,
                                         !._attachedEmitters = @ \ { target } ]
                    ELSE errors)
                     EXCEPT !.last = Last("detach", target, TRUE) ]
    /\ UNCHANGED << cfg, services, cachedPaths, active, registered,
                    lifecycleCache, tasks, app, hist >>

InitAttach ==
    /\ cfg = Chain
    /\ services = << >> /\ cachedPaths = Undefined /\ tasks = << >>
    /\ active = { } /\ registered = { } /\ lifecycleCache = { }
    /\ hist = NoHist(DOMAIN cfg.params)
    /\ app = NoApp
    /\ errors = NoAttached

NextAttach ==
    \/ \E p \in 1 .. MaxTargets : \E critical \in BOOLEAN : attachPromise(p, critical)
    \/ \E p \in 1 .. MaxTargets : \E fulfilled \in BOOLEAN : settle(p, fulfilled)
    \/ \E e \in 1 .. MaxTargets : \E critical \in BOOLEAN : attachEmitter(e, critical)
    \/ \E e \in 1 .. MaxTargets : emitterError(e)
    \/ \E kind \in { "promise", "emitter" } : \E t \in 1 .. MaxTargets : detach(kind, t)

SpecAttach == InitAttach /\ [][NextAttach]_vars

----------------------------------------------------------------------------
(* ErrorEvent: the chain of an event and its message                       *)

\* no event yet; input is what createEvent() was given, was the chain before
\* the latest transform()
NoEvent ==
    [ op |-> "none", chain |-> << >>, error |-> "none", message |-> << >>,
      input |-> [ error |-> "none", innerError |-> [ kind |-> "undefined", chain |-> << >> ] ],
      was |-> << >> ]

\* what createEvent() can be given as innerError: as Thrown, the errors of
\* an array or of an event's chain being told apart by their names
InnerErrors ==
    { [ kind |-> k, chain |-> << >> ] : k \in { "Error", "string", "undefined", "other" } }
    \cup { [ kind |-> k, chain |-> SubSeq(<< "I1", "I2", "I3", "I4" >>, 1, n) ] :
             k \in { "Array", "ErrorEvent" }, n \in 1 .. MaxChain }

\* ErrorEvent.getErrorMessage(): the messages of the chain, those after the
\* first without their trailing punctuation, the outermost first
getErrorMessage_inner_first(chain) ==
    [ i \in DOMAIN chain |-> [ of |-> chain[i], trimmed |-> i > 1 ] ]
getErrorMessage(chain) ==
    Reverse([ i \in DOMAIN chain |-> [ of |-> chain[i], trimmed |-> i > 1 ] ])

\* manager.createEvent(error, innerError) with an Error object as error
createEvent(error, innerError) ==
    /\ LET chain == createErrorChain(error, innerError)
       IN  errors' = [ op |-> "createEvent", chain |-> chain,
                       error |-> chain[Len(chain)],
                       message |-> getErrorMessage(chain),
                       input |-> [ error |-> error, innerError |-> innerError ],
                       was |-> << >> ]
    /\ UNCHANGED << cfg, services, cachedPaths, active, registered,
                    lifecycleCache, tasks, app, hist >>

\* event.transform(error)
transform(error) ==
    /\ errors.op # "none"
    /\ Len(errors.chain) < MaxChain + 3
    /\ errors' = [ errors EXCEPT !.op = "transform",
                                 !.chain = Append(@, error),
                                 !.error = error,
                                 !.message = getErrorMessage(Append(errors.chain, error)),
                                 !.was = errors.chain ]
    /\ UNCHANGED << cfg, services, cachedPaths, active, registered,
                    lifecycleCache, tasks, app, hist >>

InitChain ==
    /\ cfg = Chain
    /\ services = << >> /\ cachedPaths = Undefined /\ tasks = << >>
    /\ active = { } /\ registered = { } /\ lifecycleCache = { }
    /\ hist = NoHist(DOMAIN cfg.params)
    /\ app = NoApp
    /\ errors = NoEvent

NextChain ==
    \/ \E error \in { "A", "B" } :
         \E innerError \in InnerErrors : createEvent(error, innerError)
    \/ \E error \in { "E", "F" } : transform(error)

SpecChain == InitChain /\ [][NextChain]_vars

----------------------------------------------------------------------------
(* Propagation of error events                                             *)

\* the managers that received the event emitted last
Received == SeqToSet(errors.receipts)

C21_RejectsWithTerminalError ==
    (~app.abortOnError /\ (hist.failed # { } \/ app.who = "critical") /\ Settled) =>
        /\ app.outcome = "rejected"
        /\ app.reason = "terminal"

\* C22: a stop() called after the shutdown was requested and before it has
\* completed starts nothing (no coroutine, no hook) and waits for that
\* shutdown
C22_SecondStopWaits ==
    [][(hist'.last.op = "Application.stop" /\ app.pc \in { "ran", "stopAll", "stopModule" })
          => /\ hist'.last.ev = "waits"
             /\ tasks' = tasks /\ lifecycleCache' = lifecycleCache]_vars

\* C23: a promise returned by start() is resolved only when the application
\* is neither starting nor running
C23_StartResolvesAfterShutdown ==
    (\/ app.outcome = "resolved"
     \/ (hist.last.op = "Application.start" /\ hist.last.ev = "returns"))
        => app.pc \notin { "boot", "startAll", "startModule", "running" }

----------------------------------------------------------------------------
(* Attached promises and emitters                                          *)

\* C24: an attached promise that has rejected, and was not detached, made
\* the manager emit exactly one error event; a promise that is pending,
\* fulfilled or detached made it emit none
C24_RejectionEmitsOnce ==
    \A p \in 1 .. MaxTargets :
        errors.events["promise"][p] =
            IF /\ errors.state[p] = "rejected"
               /\ errors.watchers[p] # << >>
               /\ p \notin errors.detached
            THEN 1 ELSE 0

\* C25: the manager emitted one error event for every 'error' an emitter
\* emitted while it was attached and none for the others, and a call of
\* detach() did not raise
C25_EmitterUntilDetached ==
    /\ \A e \in 1 .. MaxTargets : errors.events["emitter"][e] = errors.expected[e]
    /\ errors.last.op = "detach" => ~errors.last.raised

----------------------------------------------------------------------------
(* The chain of an error event                                             *)

\* C26: the chain made by createEvent(A, cause) ends with A and holds before
\* it the single cause (length 2), or the errors of a cause that is an array
\* or an event in their order; transform(E) appends E to the chain as it
\* was; and the message names the errors of the chain, the outermost first
C26_ChainGrowsInOrder ==
    LET chain == errors.chain
        n == Len(chain)
        inner == errors.input.innerError
    IN  /\ errors.op = "createEvent" =>
              /\ chain[n] = errors.input.error
              /\ errors.error = errors.input.error
              /\ inner.kind \in { "Error", "string", "other" } => n = 2
              /\ inner.kind \in { "Array", "ErrorEvent" } =>
                     SubSeq(chain, 1, n - 1) = inner.chain
        /\ errors.op = "transform" =>
              /\ SubSeq(chain, 1, n - 1) = errors.was
              /\ chain[n] = errors.error
        /\ Len(errors.message) = n
        /\ \A i \in 1 .. n : errors.message[i].of = chain[n + 1 - i]

\* an event made from a cause that was itself an event with several errors,
\* and transformed afterwards
C26_Witness ==
    /\ errors.op = "transform"
    /\ errors.input.innerError.kind = "ErrorEvent"
    /\ Len(errors.input.innerError.chain) > 1
    /\ Len(errors.chain) = Len(errors.input.innerError.chain) + 2

\* C27: the critical events of a cycle are as many as the lifecycle
\* operations that failed in it: the AbortError that ends startAll() or
\* stopAll() is not emitted as a further event
C27_AbortIsControlFlow ==
    /\ hist.critical = Cardinality(hist.failed)
    /\ hist.last.ev # "UncaughtError"

\* stopAll() has failed and the catch block of shutdown() has run
C27_Witness ==
    /\ StopFailed # { }
    /\ Settled
    /\ hist.critical = 1

----------------------------------------------------------------------------
(* PromiseManager: tracked promises and the callers waiting for them       *)

MaxPromises == 2
MaxWaits == 2

\* promises and completionSources of a new manager; settled is the state of
\* the promises themselves and waits what each caller of waitAll() was given
NoPromises ==
    [ promises          |-> { },
      completionSources |-> { },
      settled           |-> { },
      waits             |-> << >> ]

\* source.resolve(value): the promise waitAll() returned is fulfilled, with
\* the tracked promises that had not settled at that moment
Resolve(m, source, value) ==
    [ m EXCEPT !.waits[source] =
          [ @ EXCEPT !.state = "resolved", !.value = value,
                     !.outstanding = m.promises \ m.settled ] ]

RECURSIVE ResolveAll(_, _, _)
ResolveAll(m, sources, value) ==
    IF sources = { } THEN m
    ELSE LET source == CHOOSE s \in sources : TRUE
         IN  ResolveAll(Resolve(m, source, value), sources \ { source }, value)

track(promise) ==
    /\ promise \notin errors.promises
    /\ errors' = [ errors EXCEPT !.promises = @ \cup { promise } ]
    /\ UNCHANGED << cfg, services, cachedPaths, active, registered, lifecycleCache,
                    tasks, app, hist >>

\* duration >= 0 arms a timer, a negative duration none
waitAll(timed) ==
    /\ Len(errors.waits) < MaxWaits
    /\ errors' = [ errors EXCEPT
           !.waits = Append(@, [ state |-> "pending", value |-> FALSE, timed |-> timed,
                                 outstanding |-> { },
                                 size |-> Cardinality(errors.promises) ]),
           !.completionSources = @ \cup { Len(errors.waits) + 1 } ]
    /\ UNCHANGED << cfg, services, cachedPaths, active, registered, lifecycleCache,
                    tasks, app, hist >>

\* the timer of a source fires
timeout(source) ==
    /\ source \in errors.completionSources
    /\ errors.waits[source].timed
    /\ errors' = [ Resolve(errors, source, FALSE) EXCEPT
                       !.completionSources = @ \ { source } ]
    /\ UNCHANGED << cfg, services, cachedPaths, active, registered, lifecycleCache,
                    tasks, app, hist >>

\* a promise is fulfilled or rejected
settlePromise(promise) ==
    /\ promise \notin errors.settled
    /\ errors' = [ errors EXCEPT !.settled = @ \cup { promise } ]
    /\ UNCHANGED << cfg, services, cachedPaths, active, registered, lifecycleCache,
                    tasks, app, hist >>

\* the finally() callback of a tracked promise that has settled
clearPromise(promise) ==
    /\ promise \in errors.promises \cap errors.settled
    /\ LET m == [ errors EXCEPT !.promises = @ \ { promise } ]
       IN  errors' = IF m.promises = { }
                     THEN [ ResolveAll(m, m.completionSources, TRUE) EXCEPT
                                !.completionSources = { } ]
                     ELSE m
    /\ UNCHANGED << cfg, services, cachedPaths, active, registered, lifecycleCache,
                    tasks, app, hist >>

clearAll_promises ==
    /\ LET m == [ errors EXCEPT !.promises = { } ]
       IN  errors' = [ ResolveAll(m, m.completionSources, TRUE) EXCEPT
                           !.completionSources = { } ]
    /\ UNCHANGED << cfg, services, cachedPaths, active, registered, lifecycleCache,
                    tasks, app, hist >>

InitPromises ==
    /\ cfg = Chain
    /\ services = << >> /\ cachedPaths = Undefined /\ tasks = << >>
    /\ active = { } /\ registered = { } /\ lifecycleCache = { }
    /\ hist = NoHist(DOMAIN cfg.params)
    /\ app = NoApp
    /\ errors = NoPromises

NextPromises ==
    \/ \E promise \in 1 .. MaxPromises : track(promise)
    \/ \E timed \in BOOLEAN : waitAll(timed)
    \/ \E source \in 1 .. MaxWaits : timeout(source)
    \/ \E promise \in 1 .. MaxPromises : settlePromise(promise)
    \/ \E promise \in 1 .. MaxPromises : clearPromise(promise)
    \/ clearAll_promises

SpecPromises == InitPromises /\ [][NextPromises]_vars

\* C28: a caller of waitAll() is given true when no tracked promise was
\* left unsettled, and false only when a tracked promise had not settled as
\* its timer fired
C28_WaitAllSettles ==
    \A source \in DOMAIN errors.waits :
        LET wait == errors.waits[source]
        IN  wait.state = "resolved" => (wait.value <=> wait.outstanding = { })

----------------------------------------------------------------------------
(* ScheduleManager: the timeouts and intervals of a service                *)

MaxTasks == 3
MaxCalls == 2

\* handles and outstanding of a new manager: a task is the timer made by one
\* createTimeout() or createInterval(), a call one run of a callback that
\* returned a promise. clear is where the clearAll() of __internStop is
\* and awaited the calls its Promise.allSettled() was given
NoSchedule ==
    [ handles     |-> { },
      outstanding |-> { },
      tasks       |-> << >>,
      calls       |-> 0,
      clear       |-> "none",
      awaited     |-> { },
      late        |-> { } ]

\* the code that can reach the scheduler: the service until it is stopped,
\* and a callback that is running
Callers(m) == (IF m.clear = "none" THEN { 0 } ELSE { }) \cup m.outstanding

createTimeout(by) ==
    /\ by \in Callers(errors)
    /\ Len(errors.tasks) < MaxTasks
    /\ errors' = [ errors EXCEPT !.tasks = Append(@, "timeout"),
                                 !.handles = @ \cup { Len(errors.tasks) + 1 } ]
    /\ UNCHANGED << cfg, services, cachedPaths, active, registered, lifecycleCache,
                    tasks, app, hist >>

createInterval(by) ==
    /\ by \in Callers(errors)
    /\ Len(errors.tasks) < MaxTasks
    /\ errors' = [ errors EXCEPT !.tasks = Append(@, "interval"),
                                 !.handles = @ \cup { Len(errors.tasks) + 1 } ]
    /\ UNCHANGED << cfg, services, cachedPaths, active, registered, lifecycleCache,
                    tasks, app, hist >>

\* the timer of a task fires: a timeout gives up its handle, and a callback
\* that returns a promise is outstanding until the promise settles
fires(task, returnsPromise) ==
    /\ task \in errors.handles
    /\ returnsPromise => errors.calls < MaxCalls
    /\ errors' = [ errors EXCEPT
           !.handles = IF errors.tasks[task] = "timeout" THEN @ \ { task } ELSE @,
           !.calls = IF returnsPromise THEN @ + 1 ELSE @,
           !.outstanding = IF returnsPromise THEN @ \cup { errors.calls + 1 } ELSE @,
           !.late = IF errors.clear = "resolved" THEN @ \cup { task } ELSE @ ]
    /\ UNCHANGED << cfg, services, cachedPaths, active, registered, lifecycleCache,
                    tasks, app, hist >>

\* the promise of a callback settles; the clearAll() that awaited it last
\* resolves
settles(call) ==
    /\ call \in errors.outstanding
    /\ errors' = [ errors EXCEPT
           !.outstanding = @ \ { call },
           !.awaited = @ \ { call },
           !.clear = IF @ = "waiting" /\ errors.awaited \subseteq { call }
                     THEN "resolved" ELSE @ ]
    /\ UNCHANGED << cfg, services, cachedPaths, active, registered, lifecycleCache,
                    tasks, app, hist >>

\* handle.clear()
clear(task) ==
    /\ task \in errors.handles
    /\ errors' = [ errors EXCEPT !.handles = @ \ { task } ]
    /\ UNCHANGED << cfg, services, cachedPaths, active, registered, lifecycleCache,
                    tasks, app, hist >>

clearAll ==
    /\ errors.clear = "none"
    /\ errors' = [ errors EXCEPT
           !.handles = { },
           !.awaited = errors.outstanding,
           !.clear = IF errors.outstanding = { } THEN "resolved" ELSE "waiting" ]
    /\ UNCHANGED << cfg, services, cachedPaths, active, registered, lifecycleCache,
                    tasks, app, hist >>

\* the timer of clearAll() fires before the awaited calls settled
clearAllTimeout ==
    /\ errors.clear = "waiting"
    /\ errors' = [ errors EXCEPT !.clear = "timed out" ]
    /\ UNCHANGED << cfg, services, cachedPaths, active, registered, lifecycleCache,
                    tasks, app, hist >>

InitSchedule ==
    /\ cfg = Chain
    /\ services = << >> /\ cachedPaths = Undefined /\ tasks = << >>
    /\ active = { } /\ registered = { } /\ lifecycleCache = { }
    /\ hist = NoHist(DOMAIN cfg.params)
    /\ app = NoApp
    /\ errors = NoSchedule

NextSchedule ==
    \/ \E by \in 0 .. MaxCalls : createTimeout(by)
    \/ \E by \in 0 .. MaxCalls : createInterval(by)
    \/ \E task \in 1 .. MaxTasks : \E returnsPromise \in BOOLEAN : fires(task, returnsPromise)
    \/ \E call \in 1 .. MaxCalls : settles(call)
    \/ \E task \in 1 .. MaxTasks : clear(task)
    \/ clearAll
    \/ clearAllTimeout

SpecSchedule == InitSchedule /\ [][NextSchedule]_vars

\* C29: once the clearAll() of a stopping service has resolved without
\* timing out, no callback of its scheduler is running, no timer of it is
\* left to fire, and none has fired since
C29_ClearedAndAwaited ==
    errors.clear = "resolved" =>
        /\ errors.outstanding = { }
        /\ errors.handles = { }
        /\ errors.late = { }

----------------------------------------------------------------------------
(* Load paths of programs whose services may depend on each other          *)

\* no load paths were asked for yet
NoResolution == [ resolved |-> FALSE, thrown |-> "none" ]

\* the dependencies the graph holds: of registered services on registered
\* services
DependencyGraph(svcs, params) ==
    [ c \in DOMAIN params |->
        IF c \in SeqToSet(svcs) THEN getDirectDependenciesOf(c, svcs, params) ELSE << >> ]

\* the services that depend on themselves, directly or through others
Cyclic(svcs, params) ==
    LET graph == DependencyGraph(svcs, params)
    IN  { n \in SeqToSet(svcs) : n \in Reach(SeqToSet(graph[n]), graph, Len(svcs)) }

\* traverse() calls itself once more than a graph without a cycle allows:
\* the recursion does not end and the call stack is exhausted
RECURSIVE Overflows(_, _, _, _)
Overflows(nodes, depth, svcs, params) ==
    IF nodes = << >> THEN FALSE
    ELSE IF depth > Len(svcs) THEN TRUE
    ELSE \E i \in DOMAIN nodes :
             Overflows(getDirectDependenciesOf(nodes[i], svcs, params), depth + 1, svcs, params)

\* ApplicationServiceManager.register(service, module) of the next class
\* with any constructor parameters, its own class among them
registerAny(service, params) ==
    /\ service \notin SeqToSet(services)
    /\ cfg' = [ cfg EXCEPT !.params[service] = params ]
    /\ services' = Append(services, service)
    /\ cachedPaths' = Undefined
    /\ errors' = NoResolution
    /\ UNCHANGED << active, registered, lifecycleCache, tasks, app, hist >>

\* getResolutionOrder() called by resolveAll(): a RangeError leaves it when
\* the traversal from an entry node does not end, and otherwise the load
\* paths are cached
getResolutionOrderCalled ==
    /\ services # << >>
    /\ LET roots    == getEntryNodes(services, cfg.params)
           overflow == /\ cachedPaths = Undefined
                       /\ \E i \in DOMAIN roots :
                              Overflows(<< roots[i] >>, 1, services, cfg.params)
       IN  /\ cachedPaths' = IF cachedPaths # Undefined \/ overflow THEN cachedPaths
                             ELSE getResolutionOrder(services, cfg.params)
           /\ errors' = [ resolved |-> TRUE,
                          thrown   |-> IF overflow THEN "RangeError" ELSE "none" ]
    /\ UNCHANGED << cfg, services, active, registered, lifecycleCache, tasks, app, hist >>

InitCycle ==
    /\ cfg = [ params  |-> [ c \in Classes |-> << >> ],
               options |-> (App :> Opt(<< >>, << >>)) ]
    /\ services = << >> /\ cachedPaths = Undefined /\ tasks = << >>
    /\ active = { } /\ registered = { } /\ lifecycleCache = { }
    /\ hist = NoHist(DOMAIN cfg.params)
    /\ app = NoApp
    /\ errors = NoResolution

NextCycle ==
    \/ \E service \in { Len(services) + 1 } \cap Classes :
         \E params \in Arrangements(Classes, MaxParams) :
             registerAny(service, params)
    \/ getResolutionOrderCalled

SpecCycle == InitCycle /\ [][NextCycle]_vars

\* C30: when the registered services hold a dependency cycle, asking for
\* the load paths raises an error and yields no paths
C30_CycleFails ==
    (errors.resolved /\ Cyclic(services, cfg.params) # { }) =>
        /\ errors.thrown # "none"
        /\ cachedPaths = Undefined

----------------------------------------------------------------------------
(* Modules without services of their own                                   *)

\* the modules below the application that own no service directly
PassThroughModules == { m \in Modules \ { App } : cfg.options[m].services = << >> }

\* C31: in a start cycle in which no call of a service has thrown, no hook
\* of a module without services of its own fires twice; when the
\* application runs its beforeModuleBoot and onModuleBoot have fired, and
\* when the shutdown has completed its beforeModuleShutdown and
\* onModuleShutdown have fired as well
C31_PassThroughHooksOnce ==
    \A m \in PassThroughModules :
        /\ \A x \in hist.refired : x[1] # m
        /\ (app.pc = "running" /\ hist.failed = { }) =>
               { << m, "beforeModuleBoot" >>, << m, "onModuleBoot" >> } \subseteq hist.fired
        /\ (app.pc = "idle" /\ app.outcome = "resolved" /\ hist.failed = { }) =>
               { << m, ev >> : ev \in Lifecycles } \subseteq hist.fired

----------------------------------------------------------------------------
(* Critical errors outside the running phase                               *)

\* C32: when user code has emitted a critical error that reached the root
\* manager while the application was starting or stopping, the application
\* has aborted (the process has exited, or the promise of start() is
\* rejected) and no load path is being stopped on its account
C32_CriticalShortCircuits ==
    (hist.last.op = "critical" /\ hist.last.ev \in { "Starting", "Stopping" }) =>
        /\ app.outcome \in { "exit", "rejected" }
        /\ app.pc \in { "exited", "idle" }
        /\ tasks = << >>

----------------------------------------------------------------------------
(* Independent load paths                                                  *)

\* a service that depends on nothing and that nothing depends on
Isolated(s) == Dependencies(s) = { } /\ Dependents(s) = { }

\* C33: two services that depend on nothing and that nothing depends on
\* lie alone on two different load paths, and an onPath() task awaits
\* nothing but the hook, register(), start() or stop() it has invoked
\* itself: never a call that another task has invoked
C33_IndependentPaths ==
    \A s, u \in Registered :
        (s # u /\ Isolated(s) /\ Isolated(u)) =>
            /\ cachedPaths # Undefined =>
                   \E p, q \in DOMAIN cachedPaths :
                       p # q /\ cachedPaths[p] = << s >> /\ cachedPaths[q] = << u >>
            /\ \A i \in DOMAIN tasks :
                   /\ tasks[i].pc \in { "hook", "register", "start", "stop" }
                   /\ \A j \in DOMAIN tasks \ { i } :
                          tasks[i].pc = "hook" =>
                              ~(tasks[j].pc = "hook" /\ tasks[j].m = tasks[i].m
                                  /\ tasks[j].kind = tasks[i].kind
                                  /\ tasks[j].phase = tasks[i].phase)

\* start() of both services is in progress at once, and the service of the
\* path launched first was the later to begin
C33_Witness ==
    \E i, j \in Running("start") :
        /\ Isolated(tasks[i].s) /\ Isolated(tasks[j].s)
        /\ tasks[i].p < tasks[j].p
        /\ hist.last.op = "start" /\ hist.last.s = tasks[i].s

----------------------------------------------------------------------------
(* Dependencies shared by load paths                                       *)

\* C34: when register() or start() of a service is invoked, no service it
\* depends on is executing register() or start(), and register() and
\* start() of none of them has thrown in this cycle
C34_DependenciesStarted ==
    hist.last.op \in { "register", "start" } =>
        \A d \in Dependencies(hist.last.s) :
            /\ \A i \in Running("register") \cup Running("start") : tasks[i].s # d
            /\ << "register", d >> \notin hist.failed
            /\ << "start", d >> \notin hist.failed

----------------------------------------------------------------------------
(* The end of a shutdown                                                   *)

\* C35: when the promise of start() has settled, after a request to stop,
\* a failed start or a failed stop, no service is in the active set
C35_NoneActiveAfterShutdown ==
    (app.pc = "idle" /\ app.outcome \in { "resolved", "rejected" }) => active = { }

----------------------------------------------------------------------------
(* The running state                                                       *)

\* C36: when the application has reached the running state, in the first
\* or in a later start cycle, every registered service is in the active
\* set and its start() has returned in that cycle
C36_RunningMeansAllStarted ==
    app.pc = "running" =>
        /\ Registered \subseteq active
        /\ Registered \subseteq hist.startDone

----------------------------------------------------------------------------
(* The load-path tasks of a failed startAll()                              *)

\* C37: once the application has gone on from a failed startAll() to its
\* shutdown, register() and start() of no service are invoked, and a task
\* that starts and a task that stops never work on the same load path
C37_FailedStartStopsTasks ==
    /\ (app.kind = "stop" /\ \E x \in hist.failed : x[1] \in { "register", "start" }) =>
           hist.last.op \notin { "register", "start" }
    /\ \A i, j \in DOMAIN tasks :
           (tasks[i].kind = "start" /\ tasks[j].kind = "stop") => tasks[i].p # tasks[j].p

----------------------------------------------------------------------------
(* Bracketing of the module hooks                                          *)

\* every onPath() task of stopAll() has returned and none has thrown
StopAllCompletes == app.pc = "stopAll" /\ ~app.rejected /\ Awaited = { }

\* C38: beforeModuleShutdown of a module fires only when its
\* beforeModuleBoot has fired in the same cycle, and when stopAll()
\* completes without error onModuleShutdown has fired for every module
\* whose beforeModuleShutdown has fired
C38_HooksBracketed ==
    /\ (hist.last.op = "hook" /\ hist.last.ev = "beforeModuleShutdown") =>
           << hist.last.m, "beforeModuleBoot" >> \in hist.fired
    /\ StopAllCompletes =>
           \A m \in Modules :
               << m, "beforeModuleShutdown" >> \in hist.fired =>
                   << m, "onModuleShutdown" >> \in hist.fired

----------------------------------------------------------------------------
(* A request to stop during the startup                                    *)

\* the application is between the call of start() and the running state
Starting == app.pc \in { "boot", "startAll", "startModule" }

\* C39: a call of Application.stop() made while the application is
\* starting stops no service, and it is not answered at once: its promise
\* is the one that resolves when the shutdown has completed
C39_StopWhileStartingKept ==
    (hist.last.op = "Application.stop" /\ Starting) =>
        /\ hist.stopCalled = { }
        /\ hist.last.ev # "returns"

----------------------------------------------------------------------------
(* Hooks claimed by another load path                                      *)

\* the modules whose beforeModuleBoot has been invoked by an onPath() task
\* and has not returned
BootHooksInProgress ==
    { tasks[i].m : i \in { j \in DOMAIN tasks :
                             /\ tasks[j].pc = "hook" /\ tasks[j].kind = "start"
                             /\ tasks[j].phase = "pre" } }

\* C40: when register() or start() of a service is invoked, beforeModuleBoot
\* of no module above it is still in progress, whichever load path has
\* invoked that hook
C40_BeforeStartHooksCompleted ==
    hist.last.op \in { "register", "start" } =>
        Ancestors(hist.last.s) \cap BootHooksInProgress = { }

====
